---------------------------- MODULE Spec2Model ----------------------------
(***************************************************************************)
(* PepperEvolution: the conversation manager (src/src/ai/manager.py), the  *)
(* AI providers (src/src/ai/models.py), the tool executor                  *)
(* (src/src/ai/tool_executor.py), the robot facade and its actuators       *)
(* (src/src/pepper/robot.py, src/src/actuators/manager.py) and the event   *)
(* stream (src/src/pepper/event_stream.py).                                *)
(*                                                                         *)
(* Texts are sequences of tokens.  A token is either a piece of plain text *)
(* or one action tag of the response grammar that _parse_actions reads:    *)
(*   "move"     [MOVE:forward:0.5]   matched by the MOVE pattern           *)
(*   "movebad"  [MOVE:forward:1.2.3] matched, but float() raises           *)
(*   "moveneg"  [MOVE:turn:-90]      not matched ([\d.]+ has no sign)      *)
(*   "speak"    [SPEAK:Hello!]                                             *)
(*   "gesture"  [GESTURE:wave]                                             *)
(*   "led"      [LED:eyes:blue]                                            *)
(*   "stop"     [STOP]                                                     *)
(***************************************************************************)
EXTENDS Integers, Sequences, FiniteSets, TLC

\* ------------------------------------------------------------------ bounds
MaxCalls == 2          \* process_user_input calls in one behaviour
MaxCallbacks == 2      \* response callbacks registered with on_response
MaxWindow == 2         \* largest size given to set_context_window
MaxRegistrations == 3  \* callbacks registered with on and on_any together
MaxOrphans == 2        \* most listener tasks left behind by repeated start()
MaxRefreshes == 3      \* runs of _update_state

\* --------------------------------------------------------- program constants
DefaultContextWindow == 10   \* AIManager.__init__: self.context_window = 10
MAX_TOOL_ROUNDS == 3         \* the round cap the tests set on the manager
\* ToolExecutor._dispatch: distances and speeds in tenths (0.1 m, 0.1),
\* angles in degrees
DistanceMin == -20
DistanceMax == 20
DistanceDefault == 5
SpeedMin == 1
SpeedMax == 8
SpeedDefault == 3
AngleMin == -180
AngleMax == 180
YawMin == -119
YawMax == 119
PitchMin == -40
PitchMax == 36

VARIABLES
    \* AIManager
    conversation_history,  \* list of messages [role, content]
    context_window,        \* number of recent messages to keep
    response_callbacks,    \* _response_callbacks: "ok" or "raises" each
    pc,                    \* where the running process_user_input is
    user_input,            \* its argument
    response,              \* the text _generate_response returned
    provider_return,       \* the value provider.generate_response returned
    backend,               \* what the hosted backend did: "none", "ok", "raise"
    provider_calls,        \* provider calls made by the running call
    actions,               \* parsed actions still to execute
    executed,              \* robot actions executed by the running call
    spoken,                \* the text handed to robot.speak, <<>> if none
    cb_index,              \* next response callback to notify
    cb_invoked,            \* callbacks notified by the running call
    result,                \* value returned by the last finished call
    hist_before,           \* len(conversation_history) when the call began
    calls,                 \* finished process_user_input calls
    snapshot               \* the list get_conversation_history returned last

VARIABLES
    \* PepperConnection, ActuatorManager, PepperRobot, ToolExecutor
    use_bridge,       \* PepperConnection.use_bridge (USE_PEPPER_BRIDGE)
    robot_init,       \* PepperRobot.initialize: "new", "ok" or "failed"
    services,         \* motion_service, tts_service, ... are set (not None)
    is_moving,        \* ActuatorManager._is_moving
    pending_turn,     \* the turn suspended in asyncio.sleep(movement_time)
    last_op,          \* the facade operation invoked last
    last_sent,        \* what that operation sent to the robot-side service
    last_tool,        \* the last finished ToolExecutor.execute call
    connected,        \* PepperConnection.connected
    session,          \* PepperConnection.session: "none", "open" (isConnected)
                      \* or "closed"
    last_call,        \* the last finished call of the connection or facade
    last_request,     \* the last finished call of a BridgeClient method
    state,            \* PepperRobot.state: for each field, the number of the
                      \* refresh that wrote it (0: the defaults of RobotState)
    refreshes,        \* the _update_state runs so far
    observed,          \* what a reader of get_state() has read from the object
    loop,             \* start_event_loop: "none", "checking", "iteration",
                      \* "sleeping" or "ended"
    sensor_callbacks, \* _sensor_callbacks: "ok" or "raises" each
    last_iteration    \* how the latest iteration of the loop went: "none",
                      \* "refreshed" or "failed"

VARIABLES
    \* EventStream
    callbacks,         \* _callbacks: event type -> list of callbacks
    global_callbacks,  \* _global_callbacks
    running,           \* _running
    stopping,          \* a stop() call waits in await self._ws.close()
    ws,                \* _ws: "none", "open" or "closed"
    task,              \* _task and where _listen_loop stands: "none",
                       \* "connecting", "reading", "dispatch", "sleeping", "ended"
    attempt_after,     \* what preceded the latest connection attempt of the
                       \* loop: "none", "start", "delay" or "close"
    event_type,        \* the event being dispatched
    event_data,        \* and its data
    cb_next,           \* the position of _dispatch in the two lists
    invoked,           \* the callbacks _dispatch has awaited for this event
    delivered,         \* the arguments each of them was awaited with
    dispatched,        \* the last _dispatch that ended
    orphans            \* listener tasks alive that _task no longer refers to

eventVars == <<callbacks, global_callbacks, running, stopping, ws, task,
               attempt_after, event_type,
               event_data, cb_next, invoked, delivered, dispatched, orphans>>

loopVars == <<loop, sensor_callbacks, last_iteration>>

stateVars == <<state, refreshes, observed, loopVars>>

robotVars == <<use_bridge, robot_init, services, is_moving, pending_turn,
               last_op, last_sent, last_tool, connected, session, last_call,
               last_request, stateVars>>

managerVars == <<conversation_history, context_window, response_callbacks, pc,
                 user_input, response, provider_return, backend, provider_calls,
                 actions, executed, spoken, cb_index, cb_invoked, result,
                 hist_before, calls, snapshot>>

vars == <<managerVars, robotVars, eventVars>>

\* ------------------------------------------------------------ text values
TagTokens == {"move", "movebad", "moveneg", "speak", "gesture", "led", "stop"}

UserInputs == {<<"Hello">>}

\* The texts the hosted model answers with.
Responses ==
    { <<"Hi there">>,
      <<"move", "On my way">>,
      <<"gesture", "move">>,
      <<"Stopping", "stop", "stop">>,
      <<"moveneg", "Turning">>,
      <<"movebad", "gesture">> }

NoText == <<>>

\* f"Sorry, I encountered an error: {str(e)}" of the providers
ProviderErrorText == <<"Sorry, I encountered an error: API down">>
\* the fixed text of _generate_response's except branch
GenerateFallbackText == <<"I'm sorry, I'm having trouble processing that right now.">>
\* f"Sorry, I encountered an error: {str(e)}" of process_user_input
CallbackErrorText == <<"Sorry, I encountered an error: boom">>

\* A Python str value and what reading .stop_reason of a value gives.
PyStr(t) == [type |-> "str", text |-> t]

\* ---------------------------------------------------------------- helpers
Min(a, b) == IF a < b THEN a ELSE b
Max(a, b) == IF a > b THEN a ELSE b

\* Python's s[i:] for any integer i.
PySliceFrom(s, i) ==
    LET n == Len(s)
        start == IF i >= 0 THEN Min(i, n) ELSE Max(n + i, 0)
    IN  SubSeq(s, start + 1, n)

IsTag(t) == t \in TagTokens


\* ------------------------------------------------------------ AI providers
\* OpenAIProvider.generate_response / AnthropicProvider.generate_response:
\* the whole body is in try/except Exception; b is what the hosted backend
\* did with the request and content the text it answered.
generate_response(b, content) ==
    IF b = "raise" THEN PyStr(ProviderErrorText) ELSE PyStr(content)

\* What a call of provider.generate_response does, seen by its caller.
ProviderCall(b, content) ==
    [raised |-> FALSE, value |-> generate_response(b, content)]

\* .stop_reason of a value a provider returned: a str has no such attribute.
StopReasonOf(v) ==
    IF v.type = "AIResponse" THEN v.stop_reason ELSE "absent"

\* --------------------------------------------------------------- AIManager
\* AIManager._generate_response: the provider's value, or the fixed text
\* when the provider call raised.
GenerateResponse(o) ==
    IF o.raised THEN PyStr(GenerateFallbackText) ELSE o.value

\* AIManager._parse_actions: one pass per tag kind, in the order MOVE,
\* SPEAK, GESTURE, LED, and a single stop action if [STOP] occurs at all.
\* float() of a malformed MOVE value raises ValueError out of the function.
ParseActions(text) ==
    LET kind(k) == SelectSeq(text, LAMBDA t : t = k)
    IN  IF \E i \in 1..Len(text) : text[i] = "movebad"
        THEN [raised |-> TRUE, value |-> <<>>]
        ELSE [raised |-> FALSE,
              value  |-> kind("move") \o kind("speak") \o kind("gesture")
                         \o kind("led")
                         \o (IF \E i \in 1..Len(text) : text[i] = "stop"
                             THEN <<"stop">> ELSE <<>>)]

\* AIManager._remove_action_tags
RemoveActionTags(text) == SelectSeq(text, LAMBDA t : ~IsTag(t))

\* _update_conversation_history appending the assistant message first.
UpdateConversationHistoryAssistantFirst(hist, window, u, r) ==
    LET h == hist \o << [role |-> "assistant", content |-> r],
                        [role |-> "user", content |-> u] >>
    IN  IF Len(h) > window * 2 THEN PySliceFrom(h, -(window * 2)) ELSE h

\* A trim that keeps the oldest messages instead of the newest.
UpdateConversationHistoryKeepOldest(hist, window, u, r) ==
    LET h == hist \o << [role |-> "user", content |-> u],
                        [role |-> "assistant", content |-> r] >>
    IN  IF Len(h) > window * 2 THEN SubSeq(h, 1, window * 2) ELSE h

\* AIManager._update_conversation_history
UpdateConversationHistory(hist, window, u, r) ==
    LET h == hist \o << [role |-> "user", content |-> u],
                        [role |-> "assistant", content |-> r] >>
    IN  IF Len(h) > window * 2 THEN PySliceFrom(h, -(window * 2)) ELSE h

\* The list a caller got from get_conversation_history: taken is what it
\* held when it was returned, items what it holds now, aliased whether it is
\* the very list object self.conversation_history is bound to.
NoSnapshot == [valid |-> FALSE, taken |-> <<>>, items |-> <<>>, aliased |-> FALSE]

\* get_conversation_history returning the list itself.
GetHistoryNoCopy(hist) ==
    [valid |-> TRUE, taken |-> hist, items |-> hist, aliased |-> TRUE]

\* get_conversation_history: self.conversation_history.copy(), a new list
\* of the same message dicts.
GetHistory(hist) ==
    [valid |-> TRUE, taken |-> hist, items |-> hist, aliased |-> FALSE]

\* What append and clear, which change the manager's list in place, do to
\* the list handed out.
SnapshotAfterInPlace(s, items) ==
    IF s.aliased THEN [s EXCEPT !.items = items] ELSE s

\* _update_conversation_history seen from the list handed out: the two
\* appends are in place; the trim binds self.conversation_history to a new
\* list (the slice) and leaves the old object as it was.
SnapshotAfterUpdate(s, hist, window, u, r) ==
    LET h == hist \o << [role |-> "user", content |-> u],
                        [role |-> "assistant", content |-> r] >>
        appended == SnapshotAfterInPlace(s, h)
    IN  IF Len(h) > window * 2 THEN [appended EXCEPT !.aliased = FALSE]
        ELSE appended

\* process_user_input, up to the await of the provider call: the robot state
\* and the environment are read and the context is built.
PUI_Begin(u) ==
    /\ pc = "idle"
    /\ calls < MaxCalls
    /\ pc' = "generating"
    /\ user_input' = u
    /\ hist_before' = Len(conversation_history)
    /\ response' = NoText
    /\ provider_return' = PyStr(NoText)
    /\ backend' = "none"
    /\ provider_calls' = 0
    /\ actions' = <<>>
    /\ executed' = <<>>
    /\ spoken' = NoText
    /\ cb_index' = 1
    /\ cb_invoked' = <<>>
    /\ UNCHANGED <<robotVars, eventVars, snapshot>>
    /\ UNCHANGED <<conversation_history, context_window, response_callbacks,
                   result, calls>>

\* The provider call returns: _generate_response, then
\* _update_conversation_history, then _execute_robot_actions parses the text.
PUI_ProviderReturns(b, content) ==
    /\ pc = "generating"
    /\ LET ret    == ProviderCall(b, content)
           resp   == GenerateResponse(ret).text
           parsed == ParseActions(resp)
       IN  /\ backend' = b
           /\ provider_return' = ret.value
           /\ provider_calls' = provider_calls + 1
           /\ response' = resp
           /\ conversation_history' =
                  UpdateConversationHistory(conversation_history, context_window,
                                            user_input, resp)
           /\ actions' = parsed.value
           \* an exception of _parse_actions leaves _execute_robot_actions
           /\ pc' = IF parsed.raised THEN "callbacks" ELSE "actions"
           /\ snapshot' = SnapshotAfterUpdate(snapshot, conversation_history,
                                              context_window, user_input, resp)
    /\ UNCHANGED <<robotVars, eventVars>>
    /\ UNCHANGED <<context_window, response_callbacks, user_input, executed,
                   spoken, cb_index, cb_invoked, result, hist_before, calls>>

\* _execute_robot_actions: the next action is awaited (_execute_action logs
\* and swallows whatever the robot raises), then the 0.2 s pause.
PUI_ExecuteAction ==
    /\ pc = "actions"
    /\ actions # <<>>
    /\ executed' = Append(executed, Head(actions))
    /\ actions' = Tail(actions)
    /\ UNCHANGED <<robotVars, eventVars, snapshot>>
    /\ UNCHANGED <<conversation_history, context_window, response_callbacks, pc,
                   user_input, response, provider_return, backend,
                   provider_calls, spoken, cb_index, cb_invoked, result,
                   hist_before, calls>>

\* _execute_robot_actions: after the last action the cleaned text is spoken
\* if it is not empty.
PUI_Speak ==
    /\ pc = "actions"
    /\ actions = <<>>
    /\ spoken' = RemoveActionTags(response)
    /\ pc' = "callbacks"
    /\ UNCHANGED <<robotVars, eventVars, snapshot>>
    /\ UNCHANGED <<conversation_history, context_window, response_callbacks,
                   user_input, response, provider_return, backend,
                   provider_calls, actions, executed, cb_index, cb_invoked,
                   result, hist_before, calls>>

\* What notifying callback number i of cbs does to the call: the loop
\* `for callback in self._response_callbacks: await callback(...)` stands in
\* the try of process_user_input, whose except returns the error text.
NotifyOutcome(cbs, i, resp) ==
    IF cbs[i] = "raises"
    THEN [pc |-> "done", result |-> CallbackErrorText, next |-> i]
    ELSE IF i = Len(cbs)
         THEN [pc |-> "done", result |-> resp, next |-> i + 1]
         ELSE [pc |-> "callbacks", result |-> NoText, next |-> i + 1]

PUI_NotifyCallback ==
    /\ pc = "callbacks"
    /\ cb_index <= Len(response_callbacks)
    /\ LET o == NotifyOutcome(response_callbacks, cb_index, response)
       IN  /\ cb_invoked' = Append(cb_invoked, cb_index)
           /\ pc' = o.pc
           /\ cb_index' = o.next
           /\ result' = IF o.pc = "done" THEN o.result ELSE result
    /\ UNCHANGED <<robotVars, eventVars, snapshot>>
    /\ UNCHANGED <<conversation_history, context_window, response_callbacks,
                   user_input, response, provider_return, backend,
                   provider_calls, actions, executed, spoken, hist_before,
                   calls>>

\* process_user_input with no callback registered: return response.
PUI_NoCallbacks ==
    /\ pc = "callbacks"
    /\ response_callbacks = <<>>
    /\ pc' = "done"
    /\ result' = response
    /\ UNCHANGED <<robotVars, eventVars, snapshot>>
    /\ UNCHANGED <<conversation_history, context_window, response_callbacks,
                   user_input, response, provider_return, backend,
                   provider_calls, actions, executed, spoken, cb_index,
                   cb_invoked, hist_before, calls>>

\* The caller has the returned value.
PUI_Return ==
    /\ pc = "done"
    /\ pc' = "idle"
    /\ calls' = calls + 1
    /\ UNCHANGED <<robotVars, eventVars, snapshot>>
    /\ UNCHANGED <<conversation_history, context_window, response_callbacks,
                   user_input, response, provider_return, backend,
                   provider_calls, actions, executed, spoken, cb_index,
                   cb_invoked, result, hist_before>>

\* AIManager.on_response
OnResponse(cb) ==
    /\ pc = "idle"
    /\ Len(response_callbacks) < MaxCallbacks
    /\ response_callbacks' = Append(response_callbacks, cb)
    /\ UNCHANGED <<robotVars, eventVars, snapshot>>
    /\ UNCHANGED <<conversation_history, context_window, pc, user_input,
                   response, provider_return, backend, provider_calls, actions,
                   executed, spoken, cb_index, cb_invoked, result, hist_before,
                   calls>>

\* AIManager.set_context_window
SetContextWindow(w) ==
    /\ pc = "idle"
    /\ context_window' = w
    /\ UNCHANGED <<robotVars, eventVars, snapshot>>
    /\ UNCHANGED <<conversation_history, response_callbacks, pc, user_input,
                   response, provider_return, backend, provider_calls, actions,
                   executed, spoken, cb_index, cb_invoked, result, hist_before,
                   calls>>

\* AIManager.clear_conversation_history
ClearConversationHistory ==
    /\ pc = "idle"
    /\ conversation_history # <<>>
    /\ conversation_history' = <<>>
    /\ snapshot' = SnapshotAfterInPlace(snapshot, <<>>)
    /\ UNCHANGED <<robotVars, eventVars>>
    /\ UNCHANGED <<context_window, response_callbacks, pc, user_input,
                   response, provider_return, backend, provider_calls, actions,
                   executed, spoken, cb_index, cb_invoked, result, hist_before,
                   calls>>

\* AIManager.get_conversation_history, called by anyone at any moment.
GetConversationHistory ==
    /\ snapshot' = GetHistory(conversation_history)
    /\ UNCHANGED <<robotVars, eventVars>>
    /\ UNCHANGED <<conversation_history, context_window, response_callbacks, pc,
                   user_input, response, provider_return, backend,
                   provider_calls, actions, executed, spoken, cb_index,
                   cb_invoked, result, hist_before, calls>>

\* AIManager.__init__
InitManager ==
    /\ snapshot = NoSnapshot
    /\ conversation_history = <<>>
    /\ context_window = DefaultContextWindow
    /\ response_callbacks = <<>>
    /\ pc = "idle"
    /\ user_input = NoText
    /\ response = NoText
    /\ provider_return = PyStr(NoText)
    /\ backend = "none"
    /\ provider_calls = 0
    /\ actions = <<>>
    /\ executed = <<>>
    /\ spoken = NoText
    /\ cb_index = 1
    /\ cb_invoked = <<>>
    /\ result = NoText
    /\ hist_before = 0
    /\ calls = 0

NextManager ==
    \/ \E u \in UserInputs : PUI_Begin(u)
    \/ \E b \in {"ok", "raise"}, content \in Responses :
           PUI_ProviderReturns(b, content)
    \/ PUI_ExecuteAction
    \/ PUI_Speak
    \/ PUI_NotifyCallback
    \/ PUI_NoCallbacks
    \/ PUI_Return
    \/ \E cb \in {"ok", "raises"} : OnResponse(cb)
    \/ \E w \in 0..MaxWindow : SetContextWindow(w)
    \/ ClearConversationHistory


\* ------------------------------------------------- tool inputs (JSON values)
\* A JSON value of a tool input: k is "num" (n, a number), "str" (s, a
\* string that is no number), "bool", "none" (null), "nan" (NaN), "huge" (an
\* integer beyond the range of float) or "missing" (the key is absent).
V(k, n, str) == [k |-> k, n |-> n, s |-> str]
Num(n) == V("num", n, "")
Str(str) == V("str", 0, str)
Missing == V("missing", 0, "")
NoneV == V("none", 0, "")
NaN == V("nan", 0, "")
Huge == V("huge", 0, "")

\* dict.get(key, default) on the slot of that key
Get(v, default) == IF v.k = "missing" THEN default ELSE v

\* The tools declared to the model (TOOLS).
DeclaredTools == {"speak", "move_forward", "turn", "move_head", "set_posture",
                  "play_animation", "set_eye_color", "take_photo",
                  "get_sensors", "emergency_stop"}

\* The names execute is called with: the declared ones and two others.
ToolNames == DeclaredTools \cup {"fly_to_moon", "Speak"}

Numbers(S) == {Num(n) : n \in S} \cup {Missing, Str("abc"), NoneV, NaN, Huge}

\* The inputs tried for each tool: <<a, b>> are the values of its first and
\* second parameter (text/animated, distance/speed, angle, yaw/pitch,
\* posture, name, color, camera).
ToolInputs(name) ==
    CASE name = "speak" ->
            {Str("Hello"), Str(""), Missing} \X {Missing, V("bool", 1, "")}
      [] name = "move_forward" ->
            Numbers({-50, -20, 10, 100}) \X {Missing, Num(0), Num(5), Num(20)}
      [] name = "turn" -> Numbers({-181, 0, 90, 360}) \X {Missing}
      [] name = "move_head" ->
            {Num(30), Num(200), Missing} \X {Num(-10), Num(-90), Missing}
      [] name = "set_posture" ->
            {Str("Stand"), Str("Crouch"), Str("Handstand"), Missing} \X {Missing}
      [] name = "play_animation" -> {Str("Hey_1"), Str(""), Missing} \X {Missing}
      [] name = "set_eye_color" -> {Str("blue"), Missing} \X {Missing}
      [] name = "take_photo" -> {Num(0), Missing} \X {Missing}
      [] OTHER -> {Missing} \X {Missing}

\* --------------------------------------------------------- ToolExecutor
\* ToolExecutor._clamp: float(value), 0.0 on TypeError or ValueError, then
\* max(min_val, min(max_val, v)).  float() of an integer too large for a
\* float raises OverflowError, which _clamp does not catch; min(max_val, nan)
\* is max_val.
Clamp(value, min_val, max_val) ==
    CASE value.k = "huge" -> [exc |-> "OverflowError", v |-> 0]
      [] value.k = "nan"  -> [exc |-> "none", v |-> Max(min_val, max_val)]
      [] value.k = "num"  -> [exc |-> "none",
                              v |-> Max(min_val, Min(max_val, value.n))]
      [] OTHER            -> [exc |-> "none", v |-> Max(min_val, Min(max_val, 0))]

\* The methods of PepperRobot and the largest number of positional arguments
\* and the keywords each accepts (self not counted).
FacadeMethods == {"initialize", "shutdown", "speak", "listen", "move_forward",
                  "turn", "wave_hand", "point_at", "take_photo",
                  "get_environment_info", "on_sensor_data", "on_touch",
                  "on_speech", "start_event_loop", "get_state", "is_ready",
                  "emergency_stop", "disable_autonomous_mode",
                  "enable_autonomous_mode"}

FacadeMaxArgs(method) ==
    CASE method = "speak" -> 2
      [] method = "move_forward" -> 1
      [] method = "turn" -> 1
      [] method = "listen" -> 1
      [] method = "point_at" -> 3
      [] OTHER -> 0

FacadeKeywords(method) ==
    CASE method = "speak" -> {"text", "language"}
      [] method = "move_forward" -> {"distance"}
      [] method = "turn" -> {"angle"}
      [] method = "listen" -> {"timeout"}
      [] method = "point_at" -> {"x", "y", "z"}
      [] OTHER -> {}

\* What Python raises when robot.<method> is called with nargs positional
\* arguments and the keywords kw.
FacadeCallError(method, nargs, kw) ==
    IF method \notin FacadeMethods THEN "AttributeError"
    ELSE IF nargs > FacadeMaxArgs(method) \/ ~(kw \subseteq FacadeKeywords(method))
         THEN "TypeError"
         ELSE "none"

Allowed == {"Stand", "StandInit", "StandZero", "Crouch"}

NoCall == [method |-> "none", args |-> <<>>, kw |-> {}]

\* An answer for an unknown tool that does not say which.
UnknownToolUnnamed(name) ==
    [success |-> FALSE, error |-> <<"Unknown tool: ", "">>]

\* The else branch of _dispatch: f"Unknown tool: {name}", kept as the
\* prefix and the name.
UnknownTool(name) == [success |-> FALSE, error |-> <<"Unknown tool: ", name>>]

Call(method, args, kw) == [method |-> method, args |-> args, kw |-> kw]

\* ToolExecutor._dispatch up to its robot call: either a result returned
\* without calling the robot, an exception of _clamp, or the robot call to
\* make.
Dispatch(name, a, b) ==
    CASE name = "speak" ->
            IF Get(a, Str("")).s = ""
            THEN [exc |-> "none", call |-> NoCall,
                  result |-> [success |-> FALSE, error |-> "text is required"]]
            ELSE [exc |-> "none",
                  call |-> Call("speak", <<Get(a, Str("")).s>>, {"animated"}),
                  result |-> [success |-> TRUE, spoken |-> Get(a, Str("")).s]]
      [] name = "move_forward" ->
            LET distance == Clamp(Get(a, Num(DistanceDefault)), DistanceMin, DistanceMax)
                speed    == Clamp(Get(b, Num(SpeedDefault)), SpeedMin, SpeedMax)
            IN  IF distance.exc # "none" \/ speed.exc # "none"
                THEN [exc |-> "OverflowError", call |-> NoCall,
                      result |-> [success |-> FALSE]]
                ELSE [exc |-> "none",
                      call |-> Call("move_forward", <<distance.v, speed.v>>, {}),
                      result |-> [success |-> TRUE, distance |-> distance.v]]
      [] name = "turn" ->
            LET angle == Clamp(Get(a, Num(0)), AngleMin, AngleMax)
            IN  IF angle.exc # "none"
                THEN [exc |-> "OverflowError", call |-> NoCall,
                      result |-> [success |-> FALSE]]
                ELSE [exc |-> "none", call |-> Call("turn", <<angle.v>>, {}),
                      result |-> [success |-> TRUE, angle |-> angle.v]]
      [] name = "move_head" ->
            LET yaw   == Clamp(Get(a, Num(0)), YawMin, YawMax)
                pitch == Clamp(Get(b, Num(0)), PitchMin, PitchMax)
            IN  IF yaw.exc # "none" \/ pitch.exc # "none"
                THEN [exc |-> "OverflowError", call |-> NoCall,
                      result |-> [success |-> FALSE]]
                ELSE [exc |-> "none",
                      call |-> Call("move_head", <<yaw.v, pitch.v>>, {}),
                      result |-> [success |-> TRUE, yaw |-> yaw.v,
                                  pitch |-> pitch.v]]
      [] name = "set_posture" ->
            LET posture == Get(a, Str("Stand")).s
            IN  IF posture \notin Allowed
                THEN [exc |-> "none", call |-> NoCall,
                      result |-> [success |-> FALSE,
                                  error |-> "Invalid posture. Must be one of: ..."]]
                ELSE [exc |-> "none", call |-> Call("set_posture", <<posture>>, {}),
                      result |-> [success |-> TRUE, posture |-> posture]]
      [] name = "play_animation" ->
            IF Get(a, Str("")).s = ""
            THEN [exc |-> "none", call |-> NoCall,
                  result |-> [success |-> FALSE, error |-> "name is required"]]
            ELSE [exc |-> "none",
                  call |-> Call("play_animation", <<Get(a, Str("")).s>>, {}),
                  result |-> [success |-> TRUE, animation |-> Get(a, Str("")).s]]
      [] name = "set_eye_color" ->
            [exc |-> "none",
             call |-> Call("set_eye_color", <<Get(a, Str("white")).s>>, {}),
             result |-> [success |-> TRUE, color |-> Get(a, Str("white")).s]]
      [] name = "take_photo" ->
            [exc |-> "none", call |-> Call("take_picture", <<>>, {"camera"}),
             result |-> [success |-> FALSE, error |-> "Camera returned no image"]]
      [] name = "get_sensors" ->
            [exc |-> "none", call |-> Call("get_sensors", <<>>, {}),
             result |-> [success |-> TRUE]]
      [] name = "emergency_stop" ->
            [exc |-> "none", call |-> Call("emergency_stop", <<>>, {}),
             result |-> [success |-> TRUE,
                         message |-> "Emergency stop activated"]]
      [] OTHER ->
            [exc |-> "none", call |-> NoCall,
             result |-> UnknownTool(name)]

\* ToolExecutor.execute without its try/except.
ExecuteNoCatch(exc, res) ==
    IF exc # "none"
    THEN [raised |-> TRUE, result |-> [success |-> FALSE]]
    ELSE [raised |-> FALSE, result |-> res]

\* ToolExecutor.execute: what the call gives its caller when _dispatch raised
\* exc (or returned res): every Exception becomes a failure result.
Execute(exc, res) ==
    IF exc # "none"
    THEN [raised |-> FALSE, result |-> [success |-> FALSE, error |-> exc]]
    ELSE [raised |-> FALSE, result |-> res]

\* The record kept of a finished execute call.
Finished(name, a, b, call, exc, res) ==
    [name |-> name, a |-> a, b |-> b, call |-> call, exc |-> exc,
     raised |-> Execute(exc, res).raised, result |-> Execute(exc, res).result]

NoTool == [name |-> "none", a |-> Missing, b |-> Missing, call |-> NoCall,
           exc |-> "none", raised |-> FALSE, result |-> [success |-> FALSE]]

NoPending == [active |-> FALSE, a |-> Missing, angle |-> 0]

\* ------------------------------------------------------- ActuatorManager
\* A call of a NAOqi service goes through: the service was obtained by
\* initialize and its session is open; else the call raises (AttributeError
\* on None, RuntimeError on a closed session).
ServicesUp == services /\ session = "open"

\* The record kept of a call that returned value, or that raised.
\* value is the Python value as it prints ("True", "False", "None", ...);
\* after is the operation that was the last one before this call.
PyBool(b) == IF b THEN "True" ELSE "False"

Returned(op, value) ==
    [op |-> op, raised |-> FALSE, value |-> value, after |-> last_op]
Raised(op) == [op |-> op, raised |-> TRUE, value |-> "none", after |-> last_op]

\* ActuatorManager.stop_all: one try around stopMove, _is_moving = False,
\* tts stopAll, animation stopAll; with motion_service None the first call
\* raises AttributeError and the except only logs.
StopAllSent == IF ServicesUp THEN <<"stopMove", "tts.stopAll", "animation.stopAll">>
               ELSE <<>>
StopAllMoving == IF ServicesUp THEN FALSE ELSE is_moving

\* ActuatorManager.set_stiffness(False): motion_service.rest() in a try.
SetStiffnessOffSent == IF ServicesUp THEN <<"rest">> ELSE <<>>

\* PepperRobot.emergency_stop: stop_all, then set_stiffness(False).
EmergencyStopSent == StopAllSent \o SetStiffnessOffSent

\* ------------------------------------------------------------ RobotState
StateFields == {"battery_level", "temperature", "is_autonomous", "is_connected"}

\* The state after the n-th _update_state has assigned its four fields.
Refreshed(n) == [f \in StateFields |-> n]

\* A reader that has not read a field.
NotRead == [f \in StateFields |-> -1]

\* ---------------------------------------------------------- PepperRobot
\* The methods of the facade that act on the robot, and those that read.
FacadeActions == {"speak", "move_forward", "turn", "wave_hand", "point_at",
                  "emergency_stop"}
FacadeReads == {"listen", "take_photo", "get_environment_info"}

\* What the call underneath does: "ok"; "refused" (the bridge client hands
\* back a failure dict, as it does for every HTTP error); "raises" (a
\* service that is None or raises, an answer that is no dict).
Unders == {"ok", "refused", "raises"}

\* What a method returns when the call underneath worked.
OkValue(method) ==
    CASE method \in {"speak", "move_forward", "turn", "wave_hand", "point_at"}
            -> "True"
      [] method = "emergency_stop" -> "None"
      [] method = "listen" -> "text"
      [] method = "take_photo" -> "image"
      [] OTHER -> "info"

\* What the except branch (or the failure branch) of the manager method
\* under a facade method returns; emergency_stop has no return statement;
\* get_environment_info collects the defaults of the sensor getters.
FailValue(method) ==
    CASE method \in {"speak", "move_forward", "turn", "wave_hand", "point_at"}
            -> "False"
      [] method = "emergency_stop" -> "None"
      [] method \in {"listen", "take_photo"} -> "None"
      [] OTHER -> "defaults"

\* A facade method: it awaits the manager method, whose body is one try
\* with "except Exception: log, return the failure value".
FacadeOutcome(method, under) ==
    [op |-> method, raised |-> FALSE, after |-> last_op, under |-> under,
     value |-> IF under = "ok" THEN OkValue(method) ELSE FailValue(method)]

\* A facade method other than emergency_stop is called.  It can work in
\* bridge mode or with the services of an open session (point_at has no
\* bridge branch); a move leaves _is_moving as it found it.
FacadeCall(method, under) ==
    /\ method # "emergency_stop"
    /\ under = "ok" =>
           IF method = "point_at" THEN ServicesUp ELSE use_bridge \/ ServicesUp
    /\ under = "refused" => use_bridge /\ method # "point_at"
    /\ last_op' = method
    /\ last_sent' = IF under = "raises" THEN <<>> ELSE <<method>>
    /\ last_call' = FacadeOutcome(method, under)
    /\ UNCHANGED <<managerVars, eventVars, last_request, stateVars>>
    /\ UNCHANGED <<use_bridge, robot_init, services, is_moving, pending_turn,
                   last_tool, connected, session>>

\* _update_state, run by start_event_loop while the robot is connected: the
\* four fields of self.state are assigned one after the other; the sensor
\* getters it awaits never suspend and catch every Exception, so the run is
\* one step of the loop.  The last assignment calls connection.is_connected,
\* which in direct mode calls session.isConnected() outside any try: when
\* that raises, the except of _update_state logs it and the field is left
\* as it was.
UpdateState(is_connected_raises) ==
    /\ connected
    /\ is_connected_raises => ~use_bridge /\ session # "none"
    /\ refreshes < MaxRefreshes
    /\ refreshes' = refreshes + 1
    /\ state' = IF is_connected_raises
                THEN [Refreshed(refreshes + 1) EXCEPT
                         !["is_connected"] = state["is_connected"]]
                ELSE Refreshed(refreshes + 1)
    /\ UNCHANGED <<managerVars, eventVars, last_request, observed, loopVars>>
    /\ UNCHANGED <<use_bridge, robot_init, services, is_moving, pending_turn,
                   last_op, last_sent, last_tool, connected, session,
                   last_call>>

\* A reader calls get_state(), which returns self.state itself, and reads
\* the first field of the object.
GetState ==
    /\ observed' = [NotRead EXCEPT !["battery_level"] = state["battery_level"]]
    /\ UNCHANGED <<managerVars, eventVars, last_request, state, refreshes,
                   loopVars>>
    /\ UNCHANGED <<use_bridge, robot_init, services, is_moving, pending_turn,
                   last_op, last_sent, last_tool, connected, session,
                   last_call>>

\* The reader, resumed after an await, reads the other fields of the object
\* it was given.
ReaderReadsOn ==
    /\ observed["battery_level"] >= 0
    /\ observed["temperature"] < 0
    /\ observed' = [f \in StateFields |->
                       IF f = "battery_level" THEN observed[f] ELSE state[f]]
    /\ UNCHANGED <<managerVars, eventVars, last_request, state, refreshes,
                   loopVars>>
    /\ UNCHANGED <<use_bridge, robot_init, services, is_moving, pending_turn,
                   last_op, last_sent, last_tool, connected, session,
                   last_call>>

\* PepperRobot.on_sensor_data
OnSensorData(cb) ==
    /\ Len(sensor_callbacks) < MaxCallbacks
    /\ sensor_callbacks' = Append(sensor_callbacks, cb)
    /\ UNCHANGED <<managerVars, eventVars, last_request, state, refreshes,
                   observed, loop, last_iteration>>
    /\ UNCHANGED <<use_bridge, robot_init, services, is_moving, pending_turn,
                   last_op, last_sent, last_tool, connected, session,
                   last_call>>

\* The application creates the task of start_event_loop after a successful
\* initialize.
StartEventLoop ==
    /\ robot_init = "ok"
    /\ loop = "none"
    /\ loop' = "checking"
    /\ UNCHANGED <<managerVars, eventVars, last_request, state, refreshes,
                   observed, sensor_callbacks, last_iteration>>
    /\ UNCHANGED <<use_bridge, robot_init, services, is_moving, pending_turn,
                   last_op, last_sent, last_tool, connected, session,
                   last_call>>

\* "while self.connection.is_connected()": the loop ends when the
\* connection is not reported alive.
LoopCheck ==
    /\ loop = "checking"
    /\ loop' = IF connected THEN "iteration" ELSE "ended"
    /\ last_iteration' = "none"
    /\ UNCHANGED <<managerVars, eventVars, last_request, state, refreshes,
                   observed, sensor_callbacks>>
    /\ UNCHANGED <<use_bridge, robot_init, services, is_moving, pending_turn,
                   last_op, last_sent, last_tool, connected, session,
                   last_call>>

\* The body of the loop, one try: the sensor callbacks are awaited, then
\* _update_state, then the sleep of 0.1 s; an exception of a callback goes
\* to the except of the loop, which logs it and sleeps 1.0 s, and
\* _update_state is not reached.  The count of refreshes stops at its bound.
LoopIteration ==
    /\ loop = "iteration"
    /\ loop' = "sleeping"
    /\ IF \E i \in 1..Len(sensor_callbacks) : sensor_callbacks[i] = "raises"
       THEN /\ last_iteration' = "failed"
            /\ UNCHANGED <<state, refreshes>>
       ELSE /\ last_iteration' = "refreshed"
            /\ refreshes' = IF refreshes < MaxRefreshes THEN refreshes + 1
                            ELSE refreshes
            /\ state' = Refreshed(refreshes')
    /\ UNCHANGED <<managerVars, eventVars, last_request, observed,
                   sensor_callbacks>>
    /\ UNCHANGED <<use_bridge, robot_init, services, is_moving, pending_turn,
                   last_op, last_sent, last_tool, connected, session,
                   last_call>>

\* The sleep of the loop ends.
LoopSleepEnds ==
    /\ loop = "sleeping"
    /\ loop' = "checking"
    /\ UNCHANGED <<managerVars, eventVars, last_request, state, refreshes,
                   observed, sensor_callbacks, last_iteration>>
    /\ UNCHANGED <<use_bridge, robot_init, services, is_moving, pending_turn,
                   last_op, last_sent, last_tool, connected, session,
                   last_call>>

\* PepperRobot.initialize: connect, then the sensors' and actuators'
\* initialize, which in bridge mode return before setting any service, then
\* _update_state.
RobotInitialize(connect_ok) ==
    /\ robot_init = "new"
    /\ refreshes < MaxRefreshes
    /\ robot_init' = IF connect_ok THEN "ok" ELSE "failed"
    /\ services' = (connect_ok /\ ~use_bridge)
    /\ last_op' = "initialize"
    /\ last_sent' = IF connect_ok /\ ~use_bridge
                    THEN <<"wakeUp", "goToPosture">> ELSE <<>>
    /\ connected' = connect_ok
    /\ session' = IF use_bridge THEN "none"
                  ELSE IF connect_ok THEN "open" ELSE "closed"
    /\ last_call' = Returned("initialize", PyBool(connect_ok))
    /\ IF connect_ok
       THEN /\ refreshes' = refreshes + 1
            /\ state' = Refreshed(refreshes + 1)
       ELSE UNCHANGED <<state, refreshes>>
    /\ UNCHANGED <<managerVars, eventVars, last_request, observed, loopVars>>
    /\ UNCHANGED <<use_bridge, is_moving, pending_turn, last_tool>>

\* execute of a tool whose _dispatch ends without a robot call that works:
\* an early result, an exception of _clamp, or a robot call Python rejects.
ToolExecuteNoRobot(name, a, b) ==
    LET d   == Dispatch(name, a, b)
        err == IF d.call.method = "none" THEN "none"
               ELSE FacadeCallError(d.call.method, Len(d.call.args), d.call.kw)
    IN  /\ d.exc # "none" \/ d.call.method = "none" \/ err # "none"
        /\ last_tool' = Finished(name, a, b, d.call,
                                 IF d.exc # "none" THEN d.exc ELSE err, d.result)
        /\ last_op' = "none"
        /\ last_sent' = <<>>
        /\ UNCHANGED <<managerVars, eventVars, last_request, stateVars, connected, session, last_call>>
        /\ UNCHANGED <<use_bridge, robot_init, services, is_moving, pending_turn>>

\* execute("turn") in bridge mode: ActuatorManager.turn posts to the bridge
\* and returns the "success" of its answer.
ToolTurnBridge(a, ok) ==
    LET d == Dispatch("turn", a, Missing)
    IN  /\ use_bridge
        /\ d.exc = "none"
        /\ last_tool' = Finished("turn", a, Missing, d.call, "none",
                                 [d.result EXCEPT !.success = ok])
        /\ last_op' = "turn"
        /\ last_sent' = <<"POST /move/turn">>
        /\ UNCHANGED <<managerVars, eventVars, last_request, stateVars, connected, session, last_call>>
        /\ UNCHANGED <<use_bridge, robot_init, services, is_moving, pending_turn>>

\* execute("turn") in direct mode when the turn returns False at once: the
\* robot is already moving, or moveTo raises because motion_service is None.
ToolTurnRefused(a) ==
    LET d == Dispatch("turn", a, Missing)
    IN  /\ ~use_bridge
        /\ d.exc = "none"
        /\ is_moving \/ ~ServicesUp
        /\ last_tool' = Finished("turn", a, Missing, d.call, "none",
                                 [d.result EXCEPT !.success = FALSE])
        /\ is_moving' = IF is_moving THEN TRUE ELSE FALSE
        /\ last_op' = "turn"
        /\ last_sent' = <<>>
        /\ UNCHANGED <<managerVars, eventVars, last_request, stateVars, connected, session, last_call>>
        /\ UNCHANGED <<use_bridge, robot_init, services, pending_turn>>

\* execute("turn") in direct mode: _is_moving = True, moveTo, and the
\* coroutine waits in asyncio.sleep(movement_time).
ToolTurnBegin(a) ==
    LET d == Dispatch("turn", a, Missing)
    IN  /\ ~use_bridge
        /\ d.exc = "none"
        /\ ~is_moving /\ ServicesUp
        /\ ~pending_turn.active
        /\ is_moving' = TRUE
        /\ pending_turn' = [active |-> TRUE, a |-> a, angle |-> d.result.angle]
        /\ last_op' = "turn"
        /\ last_sent' = <<"moveTo">>
        /\ UNCHANGED <<managerVars, eventVars, last_request, stateVars, connected, session, last_call>>
        /\ UNCHANGED <<use_bridge, robot_init, services, last_tool>>

\* The sleep of the turn ends: stopMove, _is_moving = False, return True;
\* with the session closed meanwhile stopMove raises and the turn returns
\* False.
ToolTurnComplete ==
    /\ pending_turn.active
    /\ LET d == Dispatch("turn", pending_turn.a, Missing)
       IN  last_tool' = Finished("turn", pending_turn.a, Missing, d.call,
                                 "none",
                                 [d.result EXCEPT !.success = ServicesUp])
    /\ is_moving' = FALSE
    /\ pending_turn' = NoPending
    /\ last_op' = "turn"
    /\ last_sent' = IF ServicesUp THEN <<"stopMove">> ELSE <<>>
    /\ UNCHANGED <<managerVars, eventVars, last_request, stateVars, connected, session, last_call>>
    /\ UNCHANGED <<use_bridge, robot_init, services>>

\* execute("emergency_stop"): robot.emergency_stop(), then success: true.
ToolEmergencyStop ==
    LET d == Dispatch("emergency_stop", Missing, Missing)
    IN  /\ last_tool' = Finished("emergency_stop", Missing, Missing, d.call,
                                 "none", d.result)
        /\ is_moving' = StopAllMoving
        /\ last_op' = "emergency_stop"
        /\ last_sent' = EmergencyStopSent
        /\ UNCHANGED <<managerVars, eventVars, last_request, stateVars, connected, session, last_call>>
        /\ UNCHANGED <<use_bridge, robot_init, services, pending_turn>>

\* PepperRobot.emergency_stop called on the facade (the API's endpoint);
\* it returns None whether or not the managers logged an error.
EmergencyStop ==
    /\ is_moving' = StopAllMoving
    /\ last_op' = "emergency_stop"
    /\ last_sent' = EmergencyStopSent
    /\ last_call' = FacadeOutcome("emergency_stop",
                                  IF ServicesUp THEN "ok" ELSE "raises")
    /\ UNCHANGED <<managerVars, eventVars, last_request, stateVars>>
    /\ UNCHANGED <<use_bridge, robot_init, services, pending_turn, last_tool,
                   connected, session>>

\* ----------------------------------------------------------- BridgeClient
\* Methods of BridgeClient, each one request in a try of its own.
BridgeOps == {"health_check", "get_status", "speak", "move_forward", "turn",
              "stop_motion"}

\* What the bridge answers: 200 with a success body, 200 with a failure
\* envelope, 401, 500 (both with an error message in the body), or nothing
\* within the timeout.
BridgeResponses == {"ok", "envelope_failure", "401", "500", "timeout"}

\* The message of the exception requests raises: raise_for_status words it
\* from the status line, the body of the answer is not read.
RequestsMessage(resp) ==
    CASE resp = "401" -> "401 Client Error: Unauthorized for url"
      [] resp = "500" -> "500 Server Error: Internal Server Error for url"
      [] OTHER -> "Read timed out"

\* The error message the bridge put in the body of its answer.
PeerMessage(resp) ==
    CASE resp = "401" -> "unauthorized"
      [] resp = "500" -> "TTS service unavailable"
      [] resp = "envelope_failure" -> "robot refused"
      [] OTHER -> ""

\* The dict the except branch of a method returns.
ErrorDict(op, msg) ==
    CASE op = "health_check" -> [status |-> "error", error |-> msg]
      [] op = "get_status" -> [error |-> msg]
      [] OTHER -> [success |-> FALSE, error |-> msg]

\* A BridgeClient method: the request is made, raise_for_status, and
\* response.json() is returned; "except Exception" returns the error dict.
BridgeCall(op, resp) ==
    IF resp \in {"ok", "envelope_failure"}
    THEN [raised |-> FALSE, exc |-> "none", message |-> "",
          value |-> [json |-> resp]]
    ELSE [raised |-> FALSE, exc |-> "none", message |-> "",
          value |-> ErrorDict(op, RequestsMessage(resp))]

NoRequest == [op |-> "none", resp |-> "none", connected |-> FALSE,
              sent |-> FALSE, raised |-> FALSE, exc |-> "none",
              message |-> "", value |-> [json |-> "none"]]

\* A method of the connection's BridgeClient is called; the client has no
\* connect of its own and does not look at PepperConnection.connected.
BridgeRequest(op, resp) ==
    /\ use_bridge
    /\ LET o == BridgeCall(op, resp)
       IN  last_request' = [op |-> op, resp |-> resp, connected |-> connected,
                            sent |-> TRUE, raised |-> o.raised, exc |-> o.exc,
                            message |-> o.message, value |-> o.value]
    /\ UNCHANGED <<managerVars, eventVars, stateVars>>
    /\ UNCHANGED <<use_bridge, robot_init, services, is_moving, pending_turn,
                   last_op, last_sent, last_tool, connected, session,
                   last_call>>

\* ------------------------------------------------------ PepperConnection
\* A disconnect that closes the session without asking isConnected: closing
\* a session that is not open raises.
DisconnectNoGuard(bridge, conn, sess) ==
    IF bridge
    THEN [raised |-> FALSE, connected |-> FALSE, session |-> sess]
    ELSE IF sess = "open"
         THEN [raised |-> FALSE, connected |-> FALSE, session |-> "closed"]
         ELSE [raised |-> TRUE, connected |-> conn, session |-> sess]

\* PepperConnection.disconnect: in bridge mode connected = False; in direct
\* mode only "if self.session and self.session.isConnected()" the session
\* is closed and connected = False.
DisconnectOutcome(bridge, conn, sess) ==
    IF bridge
    THEN [raised |-> FALSE, connected |-> FALSE, session |-> sess]
    ELSE IF sess = "open"
         THEN [raised |-> FALSE, connected |-> FALSE, session |-> "closed"]
         ELSE [raised |-> FALSE, connected |-> conn, session |-> sess]

\* PepperConnection.connect.  health is what the bridge's /health (or the
\* new qi session) gives: "healthy", "unhealthy" (status not healthy, robot
\* not connected, isConnected False; connected is left as it was) or
\* "raises" (no bridge client, session.connect raises).
ConnectionConnect(health) ==
    /\ connected' = CASE health = "healthy" -> TRUE
                      [] health = "unhealthy" -> connected
                      [] OTHER -> FALSE
    /\ session' = IF use_bridge THEN session
                  ELSE IF health = "healthy" THEN "open" ELSE "closed"
    /\ last_op' = "connect"
    /\ last_sent' = <<>>
    /\ last_call' = Returned("connect", PyBool(health = "healthy"))
    /\ UNCHANGED <<managerVars, eventVars, last_request, stateVars>>
    /\ UNCHANGED <<use_bridge, robot_init, services, is_moving, pending_turn,
                   last_tool>>

\* PepperConnection.disconnect
Disconnect ==
    LET o == DisconnectOutcome(use_bridge, connected, session)
    IN  /\ connected' = o.connected
        /\ session' = o.session
        /\ last_op' = "disconnect"
        /\ last_sent' = <<>>
        /\ last_call' = IF o.raised THEN Raised("disconnect")
                        ELSE Returned("disconnect", "None")
        /\ UNCHANGED <<managerVars, eventVars, last_request, stateVars>>
        /\ UNCHANGED <<use_bridge, robot_init, services, is_moving,
                       pending_turn, last_tool>>

\* PepperRobot.shutdown: stop_all, sensors.shutdown (both log their own
\* errors), then connection.disconnect.
Shutdown ==
    LET o == DisconnectOutcome(use_bridge, connected, session)
    IN  /\ is_moving' = StopAllMoving
        /\ connected' = o.connected
        /\ session' = o.session
        /\ last_op' = "shutdown"
        /\ last_sent' = StopAllSent
        /\ last_call' = IF o.raised THEN Raised("shutdown")
                        ELSE Returned("shutdown", "None")
        /\ UNCHANGED <<managerVars, eventVars, last_request, stateVars>>
        /\ UNCHANGED <<use_bridge, robot_init, services, pending_turn,
                       last_tool>>

\* The robot or the network ends the qi session (direct mode).
SessionLost ==
    /\ session = "open"
    /\ session' = "closed"
    /\ UNCHANGED <<managerVars, eventVars, last_request, stateVars>>
    /\ UNCHANGED <<use_bridge, robot_init, services, is_moving, pending_turn,
                   last_op, last_sent, last_tool, connected, last_call>>

\* PepperConnection.__init__ reads USE_PEPPER_BRIDGE; the managers start
\* with every service None and _is_moving False.
InitRobot ==
    /\ use_bridge \in BOOLEAN
    /\ robot_init = "new"
    /\ services = FALSE
    /\ is_moving = FALSE
    /\ pending_turn = NoPending
    /\ last_op = "none"
    /\ last_sent = <<>>
    /\ last_tool = NoTool
    /\ connected = FALSE
    /\ session = "none"
    /\ last_call = [op |-> "none", raised |-> FALSE, value |-> "none",
                    after |-> "none"]
    /\ last_request = NoRequest
    /\ state = Refreshed(0)
    /\ refreshes = 0
    /\ observed = NotRead
    /\ loop = "none"
    /\ sensor_callbacks = <<>>
    /\ last_iteration = "none"

NextTools ==
    \/ \E ok \in BOOLEAN : RobotInitialize(ok)
    \/ \E name \in ToolNames : \E ab \in ToolInputs(name) :
           ToolExecuteNoRobot(name, ab[1], ab[2])
    \/ \E ab \in ToolInputs("turn"), ok \in BOOLEAN : ToolTurnBridge(ab[1], ok)
    \/ \E ab \in ToolInputs("turn") : ToolTurnRefused(ab[1])
    \/ \E ab \in ToolInputs("turn") : ToolTurnBegin(ab[1])
    \/ ToolTurnComplete
    \/ ToolEmergencyStop
    \/ EmergencyStop

\* ------------------------------------------------------------ EventStream
EventTypes == {"touch", "sonar"}

\* The callbacks the application registers; "boom" raises an Exception each
\* time it is awaited.
Callbacks == {"cb", "boom"}
Raises(cb) == cb = "boom"

\* What arrives on the WebSocket: a JSON object with a type and data, one
\* without a type, one without data, text that is not JSON, and JSON that
\* is no object.
Messages == {"touch", "sonar", "no_type", "no_data", "not_json", "not_object"}

\* msg.get("type", "unknown") and msg.get("data", {}) of a JSON object:
\* "no_type" is {"data": ...}, "no_data" is {"type": "touch"}.
TypeOf(msg) ==
    CASE msg = "no_type" -> "unknown"
      [] msg = "no_data" -> "touch"
      [] OTHER -> msg

DataOf(msg) ==
    CASE msg = "touch" -> "head"
      [] msg = "sonar" -> "left 0.4"
      [] msg = "no_type" -> "x"
      [] OTHER -> "{}"

\* await cb(event_type, data)
Delivery(cb, t, data) == [cb |-> cb, type |-> t, data |-> data]

Registrations ==
    Len(global_callbacks) + Len(callbacks["touch"]) + Len(callbacks["sonar"])

\* A lookup that takes the callbacks of every type.
CallbacksOfAnyType(t) == callbacks["touch"] \o callbacks["sonar"]

\* self._callbacks.get(event_type, [])
CallbacksFor(t) == IF t \in EventTypes THEN callbacks[t] ELSE <<>>

\* The callbacks a _dispatch of t awaits, in its order: the global ones,
\* then those of the type.
Matching(t) == global_callbacks \o CallbacksFor(t)

NoDispatch == [done |-> FALSE, type |-> "none", invoked |-> <<>>,
               expected |-> <<>>, errors |-> 0, then |-> "none", ws |-> "none",
               running |-> FALSE]

\* _dispatch awaits each callback in a try of its own, except Exception
\* logging the error, so the loop over the list goes on.  The variant
\* below leaves the try out.
CallbackOutcomeNoCatch(cb) == IF Raises(cb) THEN "propagates" ELSE "returns"

CallbackOutcome(cb) == IF Raises(cb) THEN "logged" ELSE "returns"

Errors(s) == Len(SelectSeq(s, Raises))

\* EventStream.on
On(t, cb) ==
    /\ task # "dispatch"
    /\ Registrations < MaxRegistrations
    /\ callbacks' = [callbacks EXCEPT ![t] = Append(@, cb)]
    /\ UNCHANGED <<managerVars, robotVars, attempt_after, orphans>>
    /\ UNCHANGED <<global_callbacks, running, stopping, ws, task, event_type, event_data, cb_next,
                   invoked, delivered, dispatched>>

\* EventStream.on_any
OnAny(cb) ==
    /\ task # "dispatch"
    /\ Registrations < MaxRegistrations
    /\ global_callbacks' = Append(global_callbacks, cb)
    /\ UNCHANGED <<managerVars, robotVars, attempt_after, orphans>>
    /\ UNCHANGED <<callbacks, running, stopping, ws, task, event_type, event_data, cb_next, invoked, delivered,
                   dispatched>>

\* EventStream.start, called while no listener task is alive and no stop()
\* is in progress.
Start ==
    /\ task \in {"none", "ended"}
    /\ ~stopping
    /\ running' = TRUE
    /\ task' = "connecting"
    /\ attempt_after' = "start"
    /\ UNCHANGED <<managerVars, robotVars, orphans>>
    /\ UNCHANGED <<callbacks, global_callbacks, stopping, ws, event_type,
                   event_data, cb_next, invoked, delivered, dispatched>>

\* EventStream.start called while the task of an earlier start() is alive:
\* start has no test for it, _task is bound to a new task and the earlier
\* one runs on, referred to by nothing.
StartAgain ==
    /\ task \notin {"none", "ended"}
    /\ ~stopping
    /\ orphans < MaxOrphans
    /\ orphans' = orphans + 1
    /\ running' = TRUE
    /\ task' = "connecting"
    /\ attempt_after' = "start"
    /\ UNCHANGED <<managerVars, robotVars>>
    /\ UNCHANGED <<callbacks, global_callbacks, stopping, ws, event_type,
                   event_data, cb_next, invoked, delivered, dispatched>>

\* A task that nothing refers to ends: its loop finds _running False after
\* its connection ended, or the interpreter collects the pending task.
\* stop() cancels only self._task.
OrphanEnds ==
    /\ orphans > 0
    /\ orphans' = orphans - 1
    /\ UNCHANGED <<managerVars, robotVars>>
    /\ UNCHANGED <<callbacks, global_callbacks, running, stopping, ws, task,
                   attempt_after, event_type, event_data, cb_next, invoked,
                   delivered, dispatched>>

\* A stop() that leaves the task alone.
NotCancelled(t) == t

\* task.cancel() and await task: the CancelledError ends the loop at the
\* await it stands at (the except of the loop, or out of the sleep of its
\* handler); a task that ended stays ended.
Cancelled(t) == IF t = "none" THEN "none" ELSE "ended"

\* A transport that was set is closed when stop() is through: by
\* self._ws.close(), or by the async with that the cancellation leaves.
Closed(w) == IF w = "none" THEN "none" ELSE "closed"

\* EventStream.stop is called: _running = False; with a transport set it
\* waits in await self._ws.close(), else it cancels the task at once.
Stop ==
    /\ ~stopping
    /\ running' = FALSE
    /\ IF ws = "none"
       THEN /\ task' = Cancelled(task)
            /\ UNCHANGED <<ws, stopping>>
       ELSE /\ ws' = "closed"
            /\ stopping' = TRUE
            /\ UNCHANGED task
    /\ UNCHANGED <<managerVars, robotVars, attempt_after, orphans>>
    /\ UNCHANGED <<callbacks, global_callbacks, event_type, event_data,
                   cb_next, invoked, delivered, dispatched>>

\* The close is through: stop() cancels the task, awaits it and returns.
StopReturns ==
    /\ stopping
    /\ stopping' = FALSE
    /\ task' = Cancelled(task)
    /\ ws' = Closed(ws)
    /\ UNCHANGED <<managerVars, robotVars, attempt_after, orphans>>
    /\ UNCHANGED <<callbacks, global_callbacks, running, event_type,
                   event_data, cb_next, invoked, delivered, dispatched>>

\* _listen_loop: websockets.client.connect succeeds, self._ws = ws.
Connect ==
    /\ task = "connecting"
    /\ ws' = "open"
    /\ task' = "reading"
    /\ UNCHANGED <<managerVars, robotVars, attempt_after, orphans>>
    /\ UNCHANGED <<callbacks, global_callbacks, running, stopping, event_type, event_data, cb_next,
                   invoked, delivered, dispatched>>

\* A loop that ends at the first Exception that reaches it.
AfterExceptionGiveUp == "ended"

\* What the loop does with an Exception that reaches it: with _running set
\* it sleeps 3 s before the next round, else the while condition ends it.
AfterException == IF running THEN "sleeping" ELSE "ended"

\* _listen_loop: connect raises.
ConnectFails ==
    /\ task = "connecting"
    /\ task' = AfterException
    /\ UNCHANGED <<managerVars, robotVars, attempt_after, orphans>>
    /\ UNCHANGED <<callbacks, global_callbacks, running, stopping, ws, event_type, event_data,
                   cb_next, invoked, delivered, dispatched>>

\* _listen_loop: one message is read.  Text that is not JSON is logged and
\* skipped; JSON that is no object has no get, and that AttributeError
\* leaves the connection; an event starts _dispatch.
Receive(msg) ==
    /\ task = "reading"
    /\ CASE msg = "not_json" ->
              UNCHANGED <<ws, task, event_type, event_data, cb_next, invoked,
                          delivered, dispatched>>
         [] msg = "not_object" ->
              /\ ws' = "closed"
              /\ task' = AfterException
              /\ UNCHANGED <<event_type, event_data, cb_next, invoked,
                             delivered, dispatched>>
         [] OTHER ->
              /\ event_type' = TypeOf(msg)
              /\ event_data' = DataOf(msg)
              /\ cb_next' = 1
              /\ invoked' = <<>>
              /\ delivered' = <<>>
              /\ task' = "dispatch"
              /\ dispatched' = NoDispatch
              /\ UNCHANGED ws
    /\ UNCHANGED <<managerVars, robotVars, attempt_after, orphans>>
    /\ UNCHANGED <<callbacks, global_callbacks, running, stopping>>

\* _dispatch: the next callback of the two lists is awaited; after the last
\* one _dispatch returns and the loop reads on.
DispatchStep ==
    /\ task = "dispatch"
    /\ LET all == Matching(event_type)
       IN  IF cb_next > Len(all)
           THEN /\ dispatched' = [done |-> TRUE, type |-> event_type,
                                  invoked |-> invoked, expected |-> all,
                                  errors |-> Errors(invoked),
                                  then |-> "reading", ws |-> ws,
                                  running |-> running]
                /\ task' = "reading"
                /\ UNCHANGED <<ws, cb_next, invoked, delivered>>
           ELSE IF CallbackOutcome(all[cb_next]) = "propagates"
                THEN /\ dispatched' = [done |-> TRUE, type |-> event_type,
                                       invoked |-> Append(invoked, all[cb_next]),
                                       expected |-> all,
                                       errors |-> Errors(invoked) + 1,
                                       then |-> AfterException, ws |-> "closed",
                                       running |-> running]
                     /\ invoked' = Append(invoked, all[cb_next])
                     /\ delivered' = Append(delivered,
                            Delivery(all[cb_next], event_type, event_data))
                     /\ ws' = "closed"
                     /\ task' = AfterException
                     /\ UNCHANGED cb_next
                ELSE /\ invoked' = Append(invoked, all[cb_next])
                     /\ delivered' = Append(delivered,
                            Delivery(all[cb_next], event_type, event_data))
                     /\ cb_next' = cb_next + 1
                     /\ UNCHANGED <<ws, task, dispatched>>
    /\ UNCHANGED <<managerVars, robotVars, attempt_after, orphans>>
    /\ UNCHANGED <<callbacks, global_callbacks, running, stopping, event_type,
                   event_data>>

\* The peer closes the connection cleanly: the async for ends, the loop
\* goes round without a sleep.
PeerCloses ==
    /\ task = "reading"
    /\ ws' = "closed"
    /\ task' = IF running THEN "connecting" ELSE "ended"
    /\ attempt_after' = IF running THEN "close" ELSE attempt_after
    /\ UNCHANGED <<managerVars, robotVars, orphans>>
    /\ UNCHANGED <<callbacks, global_callbacks, running, stopping, event_type, event_data, cb_next,
                   invoked, delivered, dispatched>>

\* The connection breaks while the loop reads.
ConnectionLost ==
    /\ task = "reading"
    /\ ws' = "closed"
    /\ task' = AfterException
    /\ UNCHANGED <<managerVars, robotVars, attempt_after, orphans>>
    /\ UNCHANGED <<callbacks, global_callbacks, running, stopping, event_type, event_data, cb_next,
                   invoked, delivered, dispatched>>

\* asyncio.sleep(3) ends and the while condition is tested again.
SleepEnds ==
    /\ task = "sleeping"
    /\ task' = IF running THEN "connecting" ELSE "ended"
    /\ attempt_after' = IF running THEN "delay" ELSE attempt_after
    /\ UNCHANGED <<managerVars, robotVars, orphans>>
    /\ UNCHANGED <<callbacks, global_callbacks, running, stopping, ws, event_type, event_data,
                   cb_next, invoked, delivered, dispatched>>

\* EventStream.__init__
InitEvents ==
    /\ callbacks = [t \in EventTypes |-> <<>>]
    /\ global_callbacks = <<>>
    /\ running = FALSE
    /\ stopping = FALSE
    /\ ws = "none"
    /\ task = "none"
    /\ attempt_after = "none"
    /\ event_type = "none"
    /\ event_data = "{}"
    /\ cb_next = 1
    /\ invoked = <<>>
    /\ delivered = <<>>
    /\ dispatched = NoDispatch
    /\ orphans = 0

NextEvents ==
    \/ \E t \in EventTypes, cb \in Callbacks : On(t, cb)
    \/ \E cb \in Callbacks : OnAny(cb)
    \/ Start
    \/ Stop
    \/ StopReturns
    \/ Connect
    \/ ConnectFails
    \/ \E msg \in Messages : Receive(msg)
    \/ DispatchStep
    \/ PeerCloses
    \/ ConnectionLost
    \/ SleepEnds

Init == InitManager /\ InitRobot /\ InitEvents

SpecManager == Init /\ [][NextManager]_vars

\* The manager together with a caller that asks for the history.
NextHistory ==
    \/ NextManager
    \/ GetConversationHistory

SpecHistory == Init /\ [][NextHistory]_vars

SpecTools == Init /\ [][NextTools]_vars

\* The event stream does not read the connection mode.
InitBridgeMode == Init /\ use_bridge

SpecEvents == InitBridgeMode /\ [][NextEvents]_vars

\* Stopping the stream, the connection and the facade: the listen loop of a
\* stream without callbacks, and the calls of PepperConnection and of
\* PepperRobot that connect and tear down.
NextTeardown ==
    \/ Start
    \/ Stop
    \/ StopReturns
    \/ Connect
    \/ ConnectFails
    \/ \E msg \in Messages : Receive(msg)
    \/ DispatchStep
    \/ PeerCloses
    \/ ConnectionLost
    \/ SleepEnds
    \/ \E ok \in BOOLEAN : RobotInitialize(ok)
    \/ \E health \in {"healthy", "unhealthy", "raises"} : ConnectionConnect(health)
    \/ Disconnect
    \/ Shutdown
    \/ SessionLost

SpecTeardown == Init /\ [][NextTeardown]_vars

\* The connection and its bridge client.
NextBridge ==
    \/ \E ok \in BOOLEAN : RobotInitialize(ok)
    \/ \E health \in {"healthy", "unhealthy", "raises"} : ConnectionConnect(health)
    \/ Disconnect
    \/ \E op \in BridgeOps, resp \in BridgeResponses : BridgeRequest(op, resp)

SpecBridge == Init /\ [][NextBridge]_vars

\* The facade over the managers.
NextFacade ==
    \/ \E ok \in BOOLEAN : RobotInitialize(ok)
    \/ SessionLost
    \/ \E method \in FacadeActions \cup FacadeReads, under \in Unders :
           FacadeCall(method, under)
    \/ EmergencyStop

SpecFacade == Init /\ [][NextFacade]_vars

\* The robot's state object, its refreshes and a reader of it.
NextState ==
    \/ \E ok \in BOOLEAN : RobotInitialize(ok)
    \/ \E health \in {"healthy", "unhealthy", "raises"} : ConnectionConnect(health)
    \/ Disconnect
    \/ \E is_connected_raises \in BOOLEAN : UpdateState(is_connected_raises)
    \/ GetState
    \/ ReaderReadsOn

SpecState == Init /\ [][NextState]_vars

\* The refresh loop of the facade; the steps of the loop are the loop's
\* own and are taken when they can be.
NextLoop ==
    \/ \E ok \in BOOLEAN : RobotInitialize(ok)
    \/ \E cb \in {"ok", "raises"} : OnSensorData(cb)
    \/ StartEventLoop
    \/ LoopCheck
    \/ LoopIteration
    \/ LoopSleepEnds
    \/ Disconnect

SpecLoopFair ==
    /\ Init /\ [][NextLoop]_vars
    /\ WF_vars(LoopCheck) /\ WF_vars(LoopIteration) /\ WF_vars(LoopSleepEnds)

\* asyncio.sleep(3) returns after its delay.
\* The listener under any sequence of start() and stop() calls.
NextRestart ==
    \/ Start
    \/ StartAgain
    \/ OrphanEnds
    \/ Stop
    \/ StopReturns
    \/ Connect
    \/ ConnectFails
    \/ \E msg \in Messages : Receive(msg)
    \/ DispatchStep
    \/ PeerCloses
    \/ ConnectionLost
    \/ SleepEnds

SpecRestart == InitBridgeMode /\ [][NextRestart]_vars

SpecEventsFair == SpecEvents /\ WF_vars(SleepEnds)


\* ===================================================== claims: AIManager
HasToolCall(text) == \E i \in 1..Len(text) : IsTag(text[i])

\* The tool calls of a text, in the order the provider wrote them.
ToolCallsOf(text) == SelectSeq(text, IsTag)

\* The fixed text a capped loop would return ("... carried away ...").
RoundCapText == <<"carried away">>

\* C1: when every provider answer carries a tool call, process_user_input
\* stops after exactly MAX_TOOL_ROUNDS provider calls, returns the fixed
\* fallback text and an audit trail of MAX_TOOL_ROUNDS tool calls.
C1_RoundCapEndsLoop ==
    (pc = "done" /\ HasToolCall(response)) =>
        /\ provider_calls = MAX_TOOL_ROUNDS
        /\ result = RoundCapText
        /\ Len(executed) = MAX_TOOL_ROUNDS

\* C2: the tool calls of one process_user_input call are executed each
\* exactly once and in exactly the order the provider returned them.
C2_ToolCallsInProviderOrder ==
    pc = "done" => executed = ToolCallsOf(response)

C7_HistoryWithinWindow ==
    pc = "done" => Len(conversation_history) <= context_window

\* C8: a raising response callback is ignored: the call still returns the
\* response and every registered callback is notified.
C8_CallbackErrorIgnored ==
    pc = "done" =>
        /\ result = response
        /\ Len(cb_invoked) = Len(response_callbacks)

\* C9: a backend error makes the provider return a terminal response whose
\* stop_reason is error.
C9_ProviderErrorIsTerminal ==
    backend = "raise" => StopReasonOf(provider_return) = "error"


\* ------------------------------------------------- claims: ToolExecutor

\* C3: ToolExecutor.execute never raises: for every tool name and input, an
\* exception of the robot call (or of building the result) comes back as the
\* result {success: false, error: <exception message>} and is not propagated.
C3_ExecuteNeverRaises ==
    /\ ~last_tool.raised
    /\ last_tool.exc # "none" =>
           last_tool.result = [success |-> FALSE, error |-> last_tool.exc]

\* C3 happens: a robot call raised inside _dispatch (a TypeError of the
\* call, an AttributeError, an OverflowError of _clamp) and execute returned
\* the failure result.
C3_Witness ==
    /\ last_tool.name # "none"
    /\ last_tool.exc \in {"TypeError", "AttributeError", "OverflowError"}
    /\ ~last_tool.raised
    /\ ~last_tool.result.success

\* The value the clamp claim expects for a requested number.
Nearest(value, min_val, max_val) ==
    IF value.k = "huge" THEN max_val ELSE Max(min_val, Min(max_val, value.n))

\* C4: for every requested value v, move_forward returns distance = v
\* clamped to [-2.0, 2.0] and turn returns angle = v clamped to [-180, 180];
\* the call is not rejected.
C4_ClampedValueReturned ==
    /\ (last_tool.name = "move_forward" /\ last_tool.a.k \in {"num", "huge"}) =>
           /\ "distance" \in DOMAIN last_tool.result
           /\ "error" \notin DOMAIN last_tool.result
           /\ last_tool.result.distance =
                  Nearest(last_tool.a, DistanceMin, DistanceMax)
    /\ (last_tool.name = "turn" /\ last_tool.a.k \in {"num", "huge"}) =>
           /\ "angle" \in DOMAIN last_tool.result
           /\ "error" \notin DOMAIN last_tool.result
           /\ last_tool.result.angle = Nearest(last_tool.a, AngleMin, AngleMax)

\* A command that stops the robot, on the NAOqi motion service or on the
\* bridge.
IsStopCommand(c) == c \in {"stopMove", "POST /stop", "POST /emergency_stop"}

\* C5: emergency_stop is always dispatched: in every robot state, called on
\* the facade or through the tool, it sends a stop command to the robot-side
\* service.
C5_EmergencyStopAlwaysSent ==
    last_op = "emergency_stop" =>
        \E i \in 1..Len(last_sent) : IsStopCommand(last_sent[i])

\* -------------------------------------------------- claims: EventStream

\* C10: a callback that raises does not stop the dispatch: every other
\* callback matching the event, global or of the type, before or after the
\* failing one, is still invoked, the exception does not reach the listen
\* loop, and the stream keeps its connection (a dispatch that stop() did
\* not interrupt).
C10_RaisingCallbackIsolated ==
    (dispatched.done /\ dispatched.errors > 0 /\ dispatched.running) =>
        /\ dispatched.invoked = dispatched.expected
        /\ dispatched.then = "reading"
        /\ dispatched.ws = "open"

\* C10 happens: in one dispatch the first global callback raised, and a
\* callback registered for the type of the event was still awaited after a
\* callback that raised; the dispatch ended and the loop reads on.
C10_Witness ==
    /\ dispatched.done
    /\ dispatched.running
    /\ dispatched.then = "reading"
    /\ dispatched.type \in EventTypes
    /\ \E i, j \in 1..Len(dispatched.invoked) :
           /\ i < j
           /\ Raises(dispatched.invoked[i])
           /\ ~Raises(dispatched.invoked[j])
           /\ j > Len(global_callbacks)
    /\ Len(global_callbacks) > 0
    /\ Raises(global_callbacks[1])


\* The number of times x occurs in the list s.
Count(s, x) == Cardinality({i \in 1..Len(s) : s[i] = x})

\* C11: dispatch is exact: an event of type t invokes, once per
\* registration and with (t, payload), every callback registered with on_any
\* and every callback registered with on(t), and no callback registered only
\* for a different type.  Stated of the step in which _dispatch returns.
C11_DispatchExact ==
    [][(task = "dispatch" /\ task' = "reading") =>
          /\ Len(delivered') =
                 Len(global_callbacks)
                 + (IF event_type \in EventTypes
                    THEN Len(callbacks[event_type]) ELSE 0)
          /\ \A cb \in Callbacks :
                 Count(delivered', [cb |-> cb, type |-> event_type,
                                    data |-> event_data])
                 = Count(global_callbacks, cb)
                   + (IF event_type \in EventTypes
                      THEN Count(callbacks[event_type], cb) ELSE 0)]_vars

\* C11 happens: a sonar event was dispatched to a global callback and to a
\* sonar callback, while "cb", registered for touch only, was not invoked.
C11_Witness ==
    /\ dispatched.done
    /\ dispatched.type = "sonar"
    /\ task = "reading"
    /\ Len(global_callbacks) > 0
    /\ callbacks["sonar"] = <<"boom">>
    /\ callbacks["touch"] = <<"cb">>
    /\ global_callbacks = <<"boom">>
    /\ dispatched.invoked = <<"boom", "boom">>
    /\ delivered = << [cb |-> "boom", type |-> "sonar", data |-> "left 0.4"],
                      [cb |-> "boom", type |-> "sonar", data |-> "left 0.4"] >>


\* C12: while the stream is started and stop() has not been called, after
\* any connection failure (a failed connect or an error in mid-stream) the
\* loop waits the fixed delay and then tries to connect again, without a
\* limit on the attempts: a failure always leads to the sleep, and the sleep
\* always leads to a new connection attempt (or to a stop() call).
C12_ReconnectsAfterFailure ==
    /\ [][(running /\ running'
           /\ task \in {"connecting", "reading"}
           /\ task' \notin {"connecting", "reading", "dispatch"})
          => task' = "sleeping"]_vars
    /\ [][(task = "sleeping" /\ task' # "sleeping" /\ running')
          => (task' = "connecting" /\ attempt_after' = "delay")]_vars
    /\ (task = "sleeping" /\ running) ~> (task = "connecting" \/ ~running)

\* C12 happens: after a connection that was lost in mid-stream the loop has
\* slept and is connecting again.
C12_Witness ==
    /\ running
    /\ task = "connecting"
    /\ attempt_after = "delay"
    /\ ws = "closed"


C15_FailuresRaiseTypedErrors ==
    (last_request.sent /\ last_request.resp \in {"401", "500", "envelope_failure"}) =>
        /\ last_request.raised
        /\ last_request.resp = "401" => last_request.exc = "AuthError"
        /\ last_request.resp # "401" =>
               /\ last_request.exc = "RequestError"
               /\ last_request.message = PeerMessage(last_request.resp)

\* C16: an operation called on a bridge client that is not connected fails
\* at once with an error and performs no request.
C16_UnconnectedCallFails ==
    (last_request.op # "none" /\ ~last_request.connected) =>
        (last_request.raised /\ ~last_request.sent)

\* C17: no facade method lets an exception reach its caller, and when the
\* call underneath fails an action method returns False and a read returns
\* an empty or default payload.
C17_FacadeReturnsFalseOnFailure ==
    (last_call.op \in FacadeActions \cup FacadeReads /\ last_call.under # "ok") =>
        /\ ~last_call.raised
        /\ last_call.op \in FacadeActions => last_call.value = "False"
        /\ last_call.op \in FacadeReads => last_call.value \in {"None", "defaults"}

\* C18: all the fields a reader finds in the state it got from get_state()
\* come from one and the same refresh.
C18_SnapshotFromOneRefresh ==
    /\ \A f, g \in StateFields : state[f] = state[g]
    /\ \A f, g \in StateFields :
           (observed[f] >= 0 /\ observed[g] >= 0) => observed[f] = observed[g]

\* C19: the set_posture tool refuses every posture outside the allow-list
\* without asking the robot, and for every posture of the allow-list the
\* robot is asked once with that posture.
C19_PostureAllowListEnforced ==
    last_tool.name = "set_posture" =>
        LET posture == Get(last_tool.a, Str("Stand")).s
        IN  IF posture \notin Allowed
            THEN ~last_tool.result.success /\ last_tool.call = NoCall
            ELSE /\ last_tool.call = Call("set_posture", <<posture>>, {})
                 /\ last_tool.exc = "none"

\* C20: for every tool name that is not declared, execute returns exactly
\* {success: false, error: "Unknown tool: <name>"} with that name, no robot
\* method is called and nothing is raised.
C20_UnknownToolRejected ==
    (last_tool.name # "none" /\ last_tool.name \notin DeclaredTools) =>
        /\ ~last_tool.raised
        /\ last_tool.exc = "none"
        /\ last_tool.result =
               [success |-> FALSE, error |-> <<"Unknown tool: ", last_tool.name>>]
        /\ last_tool.call = NoCall

C20_Witness ==
    /\ last_tool.name = "Speak"
    /\ last_tool.result.error = <<"Unknown tool: ", "Speak">>
    /\ robot_init = "ok"
    /\ last_op = "none"

\* C21: every declared tool is dispatched to one facade method of its own,
\* which exists on the facade and accepts the arguments the executor passes.
C21_EveryToolHasItsFacadeMethod ==
    /\ \A n \in DeclaredTools :
           Cardinality({Dispatch(n, in[1], in[2]).call.method :
                           in \in ToolInputs(n)} \ {"none"}) = 1
    /\ \A n1, n2 \in DeclaredTools :
           \A i1 \in ToolInputs(n1), i2 \in ToolInputs(n2) :
               (/\ n1 # n2
                /\ Dispatch(n1, i1[1], i1[2]).call.method # "none")
               => Dispatch(n1, i1[1], i1[2]).call.method
                  # Dispatch(n2, i2[1], i2[2]).call.method
    /\ (last_tool.name \in DeclaredTools /\ last_tool.call # NoCall) =>
           last_tool.exc \notin {"AttributeError", "TypeError"}

\* C22: the list get_conversation_history returned keeps its length and its
\* messages whatever is done to the manager's history afterwards.
C22_ReturnedHistoryIndependent ==
    snapshot.valid => snapshot.items = snapshot.taken

C22_Witness ==
    /\ snapshot.valid
    /\ Len(snapshot.taken) = 2
    /\ snapshot.items = snapshot.taken
    /\ conversation_history = <<>>
    /\ calls = 1

\* C23: every provider call, bridge operation and event stream read gives
\* up after a bounded wait; here for the read of the event stream: a
\* listener waiting for the next message always leaves that wait.
C23_ReadGivesUp ==
    (running /\ task = "reading") ~> (task # "reading")

\* C24: a process_user_input call changes the history only by appending the
\* two new messages at the end and dropping messages at the front: the new
\* history is a suffix of the old one followed by the two messages, and no
\* other step of the call touches it.
C24_AppendAtEndTrimAtFront ==
    /\ [][(pc = "generating" /\ pc' # "generating") =>
             LET h == conversation_history \o
                         << [role |-> "user", content |-> user_input],
                            [role |-> "assistant", content |-> response'] >>
             IN  \E k \in 0..Len(h) :
                     conversation_history' = SubSeq(h, k + 1, Len(h))]_vars
    /\ [][pc \notin {"idle", "generating"} =>
             UNCHANGED conversation_history]_vars

C24_Witness ==
    /\ pc = "actions"
    /\ calls = 1
    /\ context_window = 1
    /\ hist_before = 2
    /\ Len(conversation_history) = 2
    /\ conversation_history[1].role = "user"
    /\ conversation_history[2].content = response
    /\ response # <<"Hi there">>

\* C25: the state is refreshed once right after a successful initialize,
\* and while the refresh loop runs and the robot stays connected a further
\* refresh always eventually happens, also after an iteration that failed.
C25_RefreshedWhileConnected ==
    /\ [][(robot_init = "new" /\ robot_init' = "ok") =>
             refreshes' = refreshes + 1]_vars
    /\ (loop = "checking" /\ connected)
           ~> (last_iteration = "refreshed" \/ ~connected \/ loop = "ended")

\* C26: for every execute call of move_forward, turn or move_head, the
\* arguments handed to the facade lie within the safety ranges and are the
\* values the result echoes back.
C26_ClampedArgumentsEchoed ==
    (last_tool.name \in {"move_forward", "turn", "move_head"}
     /\ last_tool.call # NoCall) =>
        LET args == last_tool.call.args
            res  == last_tool.result
        IN  CASE last_tool.name = "move_forward" ->
                   /\ args[1] >= DistanceMin /\ args[1] <= DistanceMax
                   /\ args[2] >= SpeedMin /\ args[2] <= SpeedMax
                   /\ "distance" \in DOMAIN res
                   /\ res.distance = args[1]
              [] last_tool.name = "turn" ->
                   /\ args[1] >= AngleMin /\ args[1] <= AngleMax
                   /\ "angle" \in DOMAIN res
                   /\ res.angle = args[1]
              [] OTHER ->
                   /\ args[1] >= YawMin /\ args[1] <= YawMax
                   /\ args[2] >= PitchMin /\ args[2] <= PitchMax
                   /\ "yaw" \in DOMAIN res /\ "pitch" \in DOMAIN res
                   /\ res.yaw = args[1] /\ res.pitch = args[2]

\* C27: at most one listener task is alive at any time, and once stop() has
\* returned none is.
C27_AtMostOneListener ==
    LET alive == (IF task \in {"none", "ended"} THEN 0 ELSE 1) + orphans
    IN  /\ alive <= 1
        /\ (~running /\ ~stopping) => alive = 0

\* C28: while the stream is running, a connection attempt that follows the
\* end of an earlier connection comes after the reconnect delay.
C28_DelayBeforeEveryReconnect ==
    (running /\ task = "connecting") => attempt_after \in {"start", "delay"}

\* C29: a message that cannot be decoded into an event (no JSON, JSON that
\* is no object, an object without a type) is skipped: no callback is
\* invoked, the connection stays and the loop reads on.
C29_UndecodableMessageSkipped ==
    [][\A msg \in {"not_json", "not_object", "no_type"} :
          Receive(msg) => (/\ task' = "reading"
                           /\ ws' = ws
                           /\ UNCHANGED <<invoked, delivered, cb_next>>)]_vars

\* C30: connected is false after every connect() that returned False, also
\* when an earlier connect() had succeeded, and after every disconnect().
C30_ConnectedOnlyAfterSuccess ==
    /\ (last_op = "connect" /\ last_call.value = "False") => ~connected
    /\ last_op = "disconnect" => ~connected

====
